---- MODULE Spec2Model ----
(***************************************************************************)
(* Callbacks of the training loop (src/callbacks/callbacks.py): LRSchedule, *)
(* History, ModelCheckpoint, LambdaCallbackPickableEveryKExamples and       *)
(* MetaSaver.  Every callback is a sequential state holder driven by an     *)
(* external training loop; the variable `registered` names the callback the *)
(* driver has registered, and one specification per callback drives it.     *)
(*                                                                         *)
(* Python objects are modelled by their __dict__: a function from attribute *)
(* names to values.  Floats are modelled as extended integers <<s, v>>:     *)
(* <<-1, 0>> is -inf, <<0, v>> the finite value v, <<1, 0>> is +inf.        *)
(***************************************************************************)
EXTENDS Integers, Sequences, FiniteSets, TLC

VARIABLES
  registered,     \* the callback class the driver exercises
  \* ---- ModelCheckpoint
  ckpt,           \* __dict__ of the ModelCheckpoint object
  ckpt_calls,     \* history: one entry per on_epoch_end call
  weights_file,   \* number of the call whose weights the file at filepath holds (0: no file)
  restored,       \* __dict__ of the object the state was restored into
  rt_status,      \* "none" | "ok" | "AttributeError": outcome of the last restore
  rt_target,      \* "unpickled" | "constructed": what the state was restored into
  rt_diverged,    \* a call after the restore saved in one object and not in the other
  \* ---- History
  hist,           \* __dict__ of the History object
  hist_runs,      \* number of on_train_begin calls so far
  hist_epochs,    \* number of on_epoch_end calls so far
  hist_n,         \* number of on_batch_end calls so far
  hist_pops,      \* history: the numbers of the on_batch_end calls that populated history_batch
  hist_sizes,     \* history: the sizes the on_batch_end calls carried
  hist_last,      \* the last hook call: its name, logs before and after, outcome
  hist_model,     \* the model's history_batch attribute is set
  hist_files,     \* the pickles in save_path
  hist_elogs,     \* history: the logs of the on_epoch_end calls since the last on_train_begin
  hist_run_sum,   \* history: the sum of the sizes on_batch_end saw since the last on_train_begin
  \* ---- LambdaCallbackPickableEveryKExamples
  lam,            \* __dict__ of the callback
  lam_batch,      \* the driver's batch index of the last on_batch_end call
  lam_n,          \* number of on_batch_end calls so far
  lam_fired,      \* history: the on_k_examples invocations
  lam_sizes,      \* history: the sizes the on_batch_end calls carried
  lam_epochs,     \* number of times the driver has started its batch index from 1
  lam_last,       \* the last hook call
  lam_sum,        \* history: the sum of the sizes on_batch_end saw
  \* ---- LRSchedule
  lr_schedule,    \* self.schedule: a sequence of <<epoch threshold, rate>>
  lr_groups,      \* the lr of each of model.optimizer.param_groups
  lr_last,        \* the last on_epoch_begin call: its epoch and outcome
  \* ---- MetaSaver
  ms,             \* __dict__ of the MetaSaver object of the running process
  ms_pc,          \* "ready" | "training" | "finished" | "exited" | "failed"
  ms_files,       \* the files in save_path
  ms_runs,        \* number of processes started on save_path
  ms_clock,       \* time.time()
  ms_last         \* the last on_train_begin call: sentinel seen, cp outcome, files before

ckptVars == <<ckpt, ckpt_calls, weights_file, restored, rt_status, rt_target, rt_diverged>>
histVars == <<hist, hist_runs, hist_epochs, hist_n, hist_pops, hist_sizes, hist_last,
              hist_model, hist_files, hist_elogs, hist_run_sum>>
lamVars == <<lam, lam_batch, lam_n, lam_fired, lam_sizes, lam_epochs, lam_last, lam_sum>>
lrVars == <<lr_schedule, lr_groups, lr_last>>
msVars == <<ms, ms_pc, ms_files, ms_runs, ms_clock, ms_last>>
vars == <<registered, ckptVars, histVars, lamVars, lrVars, msVars>>

\* -------------------------------------------------------------------------
\* Bounds of the model
\* -------------------------------------------------------------------------
MaxVal == 5
MaxPeriod == 2
MaxCkptCalls == 4
MaxK == 2
MaxHistBatches == 5
MaxHistEpochs == 2
MaxHistRuns == 2
MaxLamExamples == 120
MaxLamEpochs == 2
MaxSched == 2
MaxLREpoch == 25
MaxGroups == 2
MaxMetaRuns == 3

\* -------------------------------------------------------------------------
\* Floats
\* -------------------------------------------------------------------------
Fin(v) == <<0, v>>
PosInf == <<1, 0>>
NegInf == <<-1, 0>>

\* np.less_equal in the place of np.less
np_less_equal(a, b) == a[1] < b[1] \/ (a[1] = 0 /\ b[1] = 0 /\ a[2] <= b[2])

np_less(a, b) == a[1] < b[1] \/ (a[1] = 0 /\ b[1] = 0 /\ a[2] < b[2])
np_greater(a, b) == np_less(b, a)

\* -------------------------------------------------------------------------
\* Strings that the code inspects, as sequences of characters
\* -------------------------------------------------------------------------
VAL_LOSS == <<"v", "a", "l", "_", "l", "o", "s", "s">>
VAL_ACC == <<"v", "a", "l", "_", "a", "c", "c">>
ACC == <<"a", "c", "c">>
FMEASURE == <<"f", "m", "e", "a", "s", "u", "r", "e">>

\* s.startswith(p)
StartsWith(s, p) == Len(p) <= Len(s) /\ SubSeq(s, 1, Len(p)) = p
\* p in s
Contains(s, p) ==
  \E i \in 1..(Len(s) - Len(p) + 1) : SubSeq(s, i, i + Len(p) - 1) = p

\* -------------------------------------------------------------------------
\* dict helpers
\* -------------------------------------------------------------------------
EmptyDict == [k \in {} |-> 0]
HasKey(d, k) == k \in DOMAIN d
\* d without the keys ks (del d[k] for k in ks)
DictDel(d, ks) == [k \in (DOMAIN d) \ ks |-> d[k]]
\* d.update(e)
DictUpdate(d, e) ==
  [k \in (DOMAIN d) \cup (DOMAIN e) |-> IF k \in DOMAIN e THEN e[k] ELSE d[k]]
\* d[k] = v
DictSet(d, k, v) == [x \in (DOMAIN d) \cup {k} |-> IF x = k THEN v ELSE d[x]]

\* -------------------------------------------------------------------------
\* ModelCheckpoint
\* -------------------------------------------------------------------------
Modes == {"auto", "min", "max"}
Monitors == {VAL_LOSS, VAL_ACC}
CkptValues == {Fin(v) : v \in 2..MaxVal}
\* the logs the driver passes to on_epoch_end: no metric, or one metric
CkptLogs ==
  {EmptyDict} \cup {[k \in {m} |-> v] : m \in Monitors, v \in CkptValues}

ModelCheckpointInit(model, optimizer, monitor, verbose, save_best_only, mode, period) ==
  LET mode1 == IF mode \notin {"auto", "min", "max"} THEN "auto" ELSE mode
      less == (mode1 = "min")
              \/ (mode1 = "auto"
                  /\ ~(Contains(monitor, ACC) \/ StartsWith(monitor, FMEASURE)))
  IN [a \in {"monitor", "optimizer", "verbose", "filepath", "model",
             "save_best_only", "period", "epochs_since_last_save",
             "monitor_op", "best"} |->
        CASE a = "monitor" -> monitor
          [] a = "optimizer" -> optimizer
          [] a = "verbose" -> verbose
          [] a = "filepath" -> "model.pt"
          [] a = "model" -> model
          [] a = "save_best_only" -> save_best_only
          [] a = "period" -> period
          [] a = "epochs_since_last_save" -> 0
          [] a = "monitor_op" -> IF less THEN "less" ELSE "greater"
          [] a = "best" -> IF less THEN PosInf ELSE NegInf]

\* self.monitor_op(current, best)
monitor_op(op, current, best) ==
  IF op = "less" THEN np_less(current, best) ELSE np_greater(current, best)

\* __getstate__: a copy of __dict__ without model and optimizer
GetState(self) == DictDel(self, {"model", "optimizer"})

\* __setstate__ reads self.model and self.optimizer first
SetStateRaises(self) == ~HasKey(self, "model") \/ ~HasKey(self, "optimizer")
SetState(self, newstate) ==
  LET n1 == DictSet(newstate, "model", self["model"])
      n2 == DictSet(n1, "optimizer", self["optimizer"])
  IN DictUpdate(self, n2)

\* on_epoch_end that takes a missing metric for an improvement: it saves
OnEpochEnd_SavesWithoutMetric(self, logs) ==
  LET s1 == [self EXCEPT !["epochs_since_last_save"] = @ + 1] IN
  IF s1["epochs_since_last_save"] >= s1["period"]
  THEN LET s2 == [s1 EXCEPT !["epochs_since_last_save"] = 0] IN
       IF s2["save_best_only"]
       THEN IF ~HasKey(logs, s2["monitor"])
            THEN [self |-> s2, saved |-> TRUE]
            ELSE LET current == logs[s2["monitor"]] IN
                 IF monitor_op(s2["monitor_op"], current, s2["best"])
                 THEN [self |-> [s2 EXCEPT !["best"] = current], saved |-> TRUE]
                 ELSE [self |-> s2, saved |-> FALSE]
       ELSE [self |-> s2, saved |-> s2["verbose"] > 0]
  ELSE [self |-> s1, saved |-> FALSE]

\* on_epoch_end that resets the cadence counter only beside save_weights
OnEpochEnd_ResetsOnlyOnSave(self, logs) ==
  LET s1 == [self EXCEPT !["epochs_since_last_save"] = @ + 1] IN
  IF s1["epochs_since_last_save"] >= s1["period"]
  THEN LET s2 == [s1 EXCEPT !["epochs_since_last_save"] = 0] IN
       IF s1["save_best_only"]
       THEN IF ~HasKey(logs, s1["monitor"])
            THEN [self |-> s1, saved |-> FALSE]
            ELSE LET current == logs[s1["monitor"]] IN
                 IF monitor_op(s1["monitor_op"], current, s1["best"])
                 THEN [self |-> [s2 EXCEPT !["best"] = current], saved |-> TRUE]
                 ELSE [self |-> s1, saved |-> FALSE]
       ELSE IF s1["verbose"] > 0
            THEN [self |-> s2, saved |-> TRUE]
            ELSE [self |-> s1, saved |-> FALSE]
  ELSE [self |-> s1, saved |-> FALSE]

\* on_epoch_end that compares the metric on every epoch and saves at cadence
OnEpochEnd_ComparesEveryEpoch(self, logs) ==
  LET s1 == [self EXCEPT !["epochs_since_last_save"] = @ + 1]
      cadence == s1["epochs_since_last_save"] >= s1["period"]
      s2 == IF cadence THEN [s1 EXCEPT !["epochs_since_last_save"] = 0] ELSE s1
  IN IF s2["save_best_only"]
     THEN IF ~HasKey(logs, s2["monitor"])
          THEN [self |-> s2, saved |-> FALSE]
          ELSE LET current == logs[s2["monitor"]] IN
               IF monitor_op(s2["monitor_op"], current, s2["best"])
               THEN [self |-> [s2 EXCEPT !["best"] = current], saved |-> cadence]
               ELSE [self |-> s2, saved |-> FALSE]
     ELSE [self |-> s2, saved |-> cadence /\ s2["verbose"] > 0]

\* on_epoch_end with "self.best = current" one level out, beside the comparison
OnEpochEnd_BestOutsideComparison(self, logs) ==
  LET s1 == [self EXCEPT !["epochs_since_last_save"] = @ + 1] IN
  IF s1["epochs_since_last_save"] >= s1["period"]
  THEN LET s2 == [s1 EXCEPT !["epochs_since_last_save"] = 0] IN
       IF s2["save_best_only"]
       THEN IF ~HasKey(logs, s2["monitor"])
            THEN [self |-> s2, saved |-> FALSE]
            ELSE LET current == logs[s2["monitor"]] IN
                 [self |-> [s2 EXCEPT !["best"] = current],
                  saved |-> monitor_op(s2["monitor_op"], current, s2["best"])]
       ELSE [self |-> s2, saved |-> s2["verbose"] > 0]
  ELSE [self |-> s1, saved |-> FALSE]

\* on_epoch_end: the object after the call, and whether save_weights ran
OnEpochEnd(self, logs) ==
  LET s1 == [self EXCEPT !["epochs_since_last_save"] = @ + 1] IN
  IF s1["epochs_since_last_save"] >= s1["period"]
  THEN LET s2 == [s1 EXCEPT !["epochs_since_last_save"] = 0] IN
       IF s2["save_best_only"]
       THEN IF ~HasKey(logs, s2["monitor"])
            THEN [self |-> s2, saved |-> FALSE]
            ELSE LET current == logs[s2["monitor"]] IN
                 IF monitor_op(s2["monitor_op"], current, s2["best"])
                 THEN [self |-> [s2 EXCEPT !["best"] = current], saved |-> TRUE]
                 ELSE [self |-> s2, saved |-> FALSE]
       ELSE IF s2["verbose"] > 0
            THEN [self |-> s2, saved |-> TRUE]
            ELSE [self |-> s2, saved |-> FALSE]
  ELSE [self |-> s1, saved |-> FALSE]


\* -------------------------------------------------------------------------
\* History
\* -------------------------------------------------------------------------
\* an accumulator that inserts the new value in front of the earlier ones
Accumulate_Prepend(acc, logs) ==
  [k \in (DOMAIN acc) \cup (DOMAIN logs) |->
     IF k \in DOMAIN logs
     THEN <<logs[k]>> \o (IF k \in DOMAIN acc THEN acc[k] ELSE <<>>)
     ELSE acc[k]]

\* for k, v in logs.items(): acc.setdefault(k, []).append(v)
Accumulate(acc, logs) ==
  [k \in (DOMAIN acc) \cup (DOMAIN logs) |->
     IF k \in DOMAIN logs
     THEN Append(IF k \in DOMAIN acc THEN acc[k] ELSE <<>>, logs[k])
     ELSE acc[k]]

\* the logs the driver passes to History.on_epoch_end and to on_batch_end
HistEpochLogs == {EmptyDict} \cup {[k \in {"loss"} |-> v] : v \in {1, 2}}
BatchSizes == {1, 2}
HistBatchLogs ==
  {[k \in {"size", "loss"} |-> IF k = "size" THEN s ELSE 7] : s \in BatchSizes}
    \cup {[k \in {"loss"} |-> 7]}

NoCall == [op |-> "none", err |-> "none", logs_in |-> EmptyDict, logs_out |-> EmptyDict,
           populated |-> FALSE]

HistoryInit(save_every_k_examples, save_path) ==
  [a \in {"examples_seen", "save_every_k_examples",
          "examples_seen_since_last_population", "save_path"} |->
     CASE a = "examples_seen" -> 0
       [] a = "save_every_k_examples" -> save_every_k_examples
       [] a = "examples_seen_since_last_population" -> 0
       [] a = "save_path" -> save_path]

\* on_train_begin
HistOnTrainBegin(self) ==
  DictSet(DictSet(self, "history", EmptyDict), "history_batch", EmptyDict)

\* on_epoch_end: the object and the files after the call
HistOnEpochEnd(self, logs, files) ==
  LET s1 == [self EXCEPT !["history"] = Accumulate(@, logs)]
      f1 == IF s1["save_path"] # "None"
            THEN DictSet(files, "history.pkl", s1["history"])
            ELSE files
      f2 == IF s1["save_path"] # "None" /\ s1["save_every_k_examples"] # -1
            THEN DictSet(f1, "history_batch.pkl", s1["history_batch"])
            ELSE f1
  IN [self |-> s1, files |-> f2]

\* on_batch_end that writes logs['examples_seen'] after the population check
HistOnBatchEnd_WritesTotalAfterCheck(self, logs, modelattr) ==
  IF self["save_every_k_examples"] # -1
  THEN IF ~HasKey(logs, "size")
       THEN [self |-> self, logs |-> logs, err |-> "AssertionError",
             populated |-> FALSE, modelattr |-> TRUE]
       ELSE LET s1 == [self EXCEPT !["examples_seen"] = @ + logs["size"]]
                l1 == DictSet(logs, "examples_seen", s1["examples_seen"])
                s2 == [s1 EXCEPT !["examples_seen_since_last_population"] = @ + logs["size"]]
            IN IF s2["examples_seen_since_last_population"] > s2["save_every_k_examples"]
               THEN [self |-> [s2 EXCEPT !["history_batch"] = Accumulate(@, logs),
                                        !["examples_seen_since_last_population"] = 0],
                     logs |-> l1, err |-> "none", populated |-> TRUE, modelattr |-> TRUE]
               ELSE [self |-> s2, logs |-> l1, err |-> "none", populated |-> FALSE,
                     modelattr |-> TRUE]
  ELSE [self |-> self, logs |-> logs, err |-> "none", populated |-> FALSE,
        modelattr |-> modelattr]

\* on_batch_end that asserts 'size' before it looks at save_every_k_examples
HistOnBatchEnd_AssertsFirst(self, logs, modelattr) ==
  IF ~HasKey(logs, "size")
  THEN [self |-> self, logs |-> logs, err |-> "AssertionError",
        populated |-> FALSE, modelattr |-> modelattr]
  ELSE IF self["save_every_k_examples"] # -1
       THEN LET s1 == [self EXCEPT !["examples_seen"] = @ + logs["size"]]
                l1 == DictSet(logs, "examples_seen", s1["examples_seen"])
                s2 == [s1 EXCEPT !["examples_seen_since_last_population"] = @ + logs["size"]]
            IN IF s2["examples_seen_since_last_population"] > s2["save_every_k_examples"]
               THEN [self |-> [s2 EXCEPT !["history_batch"] = Accumulate(@, l1),
                                        !["examples_seen_since_last_population"] = 0],
                     logs |-> l1, err |-> "none", populated |-> TRUE, modelattr |-> TRUE]
               ELSE [self |-> s2, logs |-> l1, err |-> "none", populated |-> FALSE,
                     modelattr |-> TRUE]
       ELSE [self |-> self, logs |-> logs, err |-> "none", populated |-> FALSE,
             modelattr |-> modelattr]

\* on_batch_end that populates when the counter reaches the threshold (>=)
HistOnBatchEnd_PopulatesAtThreshold(self, logs, modelattr) ==
  IF self["save_every_k_examples"] # -1
  THEN IF ~HasKey(logs, "size")
       THEN [self |-> self, logs |-> logs, err |-> "AssertionError",
             populated |-> FALSE, modelattr |-> TRUE]
       ELSE LET s1 == [self EXCEPT !["examples_seen"] = @ + logs["size"]]
                l1 == DictSet(logs, "examples_seen", s1["examples_seen"])
                s2 == [s1 EXCEPT !["examples_seen_since_last_population"] = @ + logs["size"]]
            IN IF s2["examples_seen_since_last_population"] >= s2["save_every_k_examples"]
               THEN [self |-> [s2 EXCEPT !["history_batch"] = Accumulate(@, l1),
                                        !["examples_seen_since_last_population"] = 0],
                     logs |-> l1, err |-> "none", populated |-> TRUE, modelattr |-> TRUE]
               ELSE [self |-> s2, logs |-> l1, err |-> "none", populated |-> FALSE,
                     modelattr |-> TRUE]
  ELSE [self |-> self, logs |-> logs, err |-> "none", populated |-> FALSE,
        modelattr |-> modelattr]

\* on_batch_end: the object and the logs after the call, the error raised,
\* whether history_batch was populated, whether the model attribute is set
HistOnBatchEnd(self, logs, modelattr) ==
  IF self["save_every_k_examples"] # -1
  THEN IF ~HasKey(logs, "size")
       THEN [self |-> self, logs |-> logs, err |-> "AssertionError",
             populated |-> FALSE, modelattr |-> TRUE]
       ELSE LET s1 == [self EXCEPT !["examples_seen"] = @ + logs["size"]]
                l1 == DictSet(logs, "examples_seen", s1["examples_seen"])
                s2 == [s1 EXCEPT !["examples_seen_since_last_population"] = @ + logs["size"]]
            IN IF s2["examples_seen_since_last_population"] > s2["save_every_k_examples"]
               THEN [self |-> [s2 EXCEPT !["history_batch"] = Accumulate(@, l1),
                                        !["examples_seen_since_last_population"] = 0],
                     logs |-> l1, err |-> "none", populated |-> TRUE, modelattr |-> TRUE]
               ELSE [self |-> s2, logs |-> l1, err |-> "none", populated |-> FALSE,
                     modelattr |-> TRUE]
  ELSE [self |-> self, logs |-> logs, err |-> "none", populated |-> FALSE,
        modelattr |-> modelattr]


\* -------------------------------------------------------------------------
\* LambdaCallbackPickableEveryKExamples
\* -------------------------------------------------------------------------
LamSizes == {10, 50}
LamKs == {20, 100}
LamLogs ==
  {[k \in {"size", "loss"} |-> IF k = "size" THEN s ELSE 7] : s \in LamSizes}
    \cup {[k \in {"loss"} |-> 7]}

LambdaInit(k, call_after_first_batch) ==
  [a \in {"examples_seen", "call_after_first_batch",
          "examples_seen_since_last_call", "k", "on_k_examples", "calls"} |->
     CASE a = "examples_seen" -> 0
       [] a = "call_after_first_batch" -> call_after_first_batch
       [] a = "examples_seen_since_last_call" -> 0
       [] a = "k" -> k
       [] a = "on_k_examples" -> "callable"
       [] a = "calls" -> 0]

\* on_batch_end with "self.calls += 1" one level out: counted on every batch
LamOnBatchEnd_CountsEveryBatch(self, batch, logs) ==
  IF ~HasKey(logs, "size")
  THEN [self |-> self, err |-> "AssertionError", fired |-> FALSE]
  ELSE LET s1 == [self EXCEPT !["examples_seen"] = @ + logs["size"],
                              !["examples_seen_since_last_call"] = @ + logs["size"]]
       IN IF (s1["call_after_first_batch"] /\ batch = 1)
             \/ s1["examples_seen_since_last_call"] > s1["k"]
          THEN [self |-> [s1 EXCEPT !["examples_seen_since_last_call"] = 0,
                                    !["calls"] = @ + 1],
                err |-> "none", fired |-> TRUE]
          ELSE [self |-> [s1 EXCEPT !["calls"] = @ + 1], err |-> "none", fired |-> FALSE]

\* on_batch_end that fires without resetting the since-last counter
LamOnBatchEnd_KeepsSince(self, batch, logs) ==
  IF ~HasKey(logs, "size")
  THEN [self |-> self, err |-> "AssertionError", fired |-> FALSE]
  ELSE LET s1 == [self EXCEPT !["examples_seen"] = @ + logs["size"],
                              !["examples_seen_since_last_call"] = @ + logs["size"]]
       IN IF (s1["call_after_first_batch"] /\ batch = 1)
             \/ s1["examples_seen_since_last_call"] > s1["k"]
          THEN [self |-> [s1 EXCEPT !["calls"] = @ + 1], err |-> "none", fired |-> TRUE]
          ELSE [self |-> s1, err |-> "none", fired |-> FALSE]

\* on_batch_end that fires when the counter reaches k (>=)
LamOnBatchEnd_FiresAtThreshold(self, batch, logs) ==
  IF ~HasKey(logs, "size")
  THEN [self |-> self, err |-> "AssertionError", fired |-> FALSE]
  ELSE LET s1 == [self EXCEPT !["examples_seen"] = @ + logs["size"],
                              !["examples_seen_since_last_call"] = @ + logs["size"]]
       IN IF (s1["call_after_first_batch"] /\ batch = 1)
             \/ s1["examples_seen_since_last_call"] >= s1["k"]
          THEN [self |-> [s1 EXCEPT !["examples_seen_since_last_call"] = 0,
                                    !["calls"] = @ + 1],
                err |-> "none", fired |-> TRUE]
          ELSE [self |-> s1, err |-> "none", fired |-> FALSE]

\* on_batch_end without the assert, reading logs.get('size', 0)
LamOnBatchEnd_NoAssert(self, batch, logs) ==
  LET size == IF HasKey(logs, "size") THEN logs["size"] ELSE 0
      s1 == [self EXCEPT !["examples_seen"] = @ + size,
                         !["examples_seen_since_last_call"] = @ + size]
  IN IF (s1["call_after_first_batch"] /\ batch = 1)
        \/ s1["examples_seen_since_last_call"] > s1["k"]
     THEN [self |-> [s1 EXCEPT !["examples_seen_since_last_call"] = 0,
                               !["calls"] = @ + 1],
           err |-> "none", fired |-> TRUE]
     ELSE [self |-> s1, err |-> "none", fired |-> FALSE]

\* on_batch_end: the object after the call, the error raised, whether
\* on_k_examples was invoked (with logs)
LamOnBatchEnd(self, batch, logs) ==
  IF ~HasKey(logs, "size")
  THEN [self |-> self, err |-> "AssertionError", fired |-> FALSE]
  ELSE LET s1 == [self EXCEPT !["examples_seen"] = @ + logs["size"],
                              !["examples_seen_since_last_call"] = @ + logs["size"]]
       IN IF (s1["call_after_first_batch"] /\ batch = 1)
             \/ s1["examples_seen_since_last_call"] > s1["k"]
          THEN [self |-> [s1 EXCEPT !["examples_seen_since_last_call"] = 0,
                                    !["calls"] = @ + 1],
                err |-> "none", fired |-> TRUE]
          ELSE [self |-> s1, err |-> "none", fired |-> FALSE]


\* -------------------------------------------------------------------------
\* LRSchedule
\* -------------------------------------------------------------------------
Thresholds == {10, 20}
\* rates in hundredths: 0.1 is 10, 0.01 is 1
Rates == {1, 10}
Schedules ==
  UNION {[1..n -> Thresholds \X Rates] : n \in 0..MaxSched}

\* the loop with "if epoch <= e: break"
RECURSIVE LoopV_BreakOnEqual(_, _, _)
LoopV_BreakOnEqual(schedule, i, epoch) ==
  IF epoch <= schedule[i][1] THEN schedule[i][2]
  ELSE IF i = Len(schedule) THEN schedule[i][2]
  ELSE LoopV_BreakOnEqual(schedule, i + 1, epoch)

\* The value of v when the loop "for e, v in schedule: if epoch < e: break"
\* that has reached entry i ends.
RECURSIVE LoopV(_, _, _)
LoopV(schedule, i, epoch) ==
  IF epoch < schedule[i][1] THEN schedule[i][2]
  ELSE IF i = Len(schedule) THEN schedule[i][2]
  ELSE LoopV(schedule, i + 1, epoch)

\* on_epoch_begin: the lr of the param groups after the call, and the error
\* raised (v is unbound after a loop over an empty schedule)
LROnEpochBegin(schedule, groups, epoch) ==
  IF Len(schedule) = 0
  THEN [groups |-> groups, err |-> "UnboundLocalError"]
  ELSE [groups |-> [g \in DOMAIN groups |-> LoopV(schedule, 1, epoch)], err |-> "none"]

\* -------------------------------------------------------------------------
\* MetaSaver
\* -------------------------------------------------------------------------
MetaSaverInit(force_train, config, save_path) ==
  [a \in {"force_train", "config", "save_path"} |->
     CASE a = "force_train" -> force_train
       [] a = "config" -> config
       [] a = "save_path" -> save_path]

\* datetime.utcnow().strftime("%Y_%m_%d"): the day of the time t
UtcDate(t) == t \div 4

\* on_train_begin that exits on the sentinel whatever force_train is
MetaOnTrainBegin_IgnoresForce(self, files, argv, cp_ok, now) ==
  IF HasKey(files, "FINISHED")
  THEN [self |-> self, files |-> files, end |-> "exit"]
  ELSE IF ~cp_ok
  THEN [self |-> self, files |-> files, end |-> "AssertionError"]
  ELSE LET f1 == DictSet(files, argv, "script")
           meta == [cmd |-> <<"python", argv>>,
                    save_path |-> self["save_path"],
                    start_utc_date |-> UtcDate(now),
                    execution_time |-> 0 - now]
           f2 == DictSet(f1, "config.json", self["config"])
           f3 == DictSet(f2, "meta.json", meta)
       IN [self |-> DictSet(self, "meta", meta), files |-> f3, end |-> "none"]

\* on_train_begin: the object and the files after the call and how the call
\* ended: "exit" (exit(0)), "AssertionError" (cp failed) or "none"
MetaOnTrainBegin(self, files, argv, cp_ok, now) ==
  IF HasKey(files, "FINISHED") /\ ~self["force_train"]
  THEN [self |-> self, files |-> files, end |-> "exit"]
  ELSE IF ~cp_ok
  THEN [self |-> self, files |-> files, end |-> "AssertionError"]
  ELSE LET f1 == DictSet(files, argv, "script")
           meta == [cmd |-> <<"python", argv>>,
                    save_path |-> self["save_path"],
                    start_utc_date |-> UtcDate(now),
                    execution_time |-> 0 - now]
           f2 == DictSet(f1, "config.json", self["config"])
           f3 == DictSet(f2, "meta.json", meta)
       IN [self |-> DictSet(self, "meta", meta), files |-> f3, end |-> "none"]

\* on_train_end that touches the sentinel without re-persisting meta.json
MetaOnTrainEnd_SentinelOnly(self, files, now) ==
  LET meta == [self["meta"] EXCEPT !.execution_time = @ + now]
      f2 == IF HasKey(files, "FINISHED") THEN files ELSE DictSet(files, "FINISHED", "")
  IN [self |-> DictSet(self, "meta", meta), files |-> f2]

\* on_train_end
MetaOnTrainEnd(self, files, now) ==
  LET meta == [self["meta"] EXCEPT !.execution_time = @ + now]
      f1 == DictSet(files, "meta.json", meta)
      f2 == IF HasKey(f1, "FINISHED") THEN f1 ELSE DictSet(f1, "FINISHED", "")
  IN [self |-> DictSet(self, "meta", meta), files |-> f2]

\* -------------------------------------------------------------------------
\* The callbacks the driver has not registered stay as they are
\* -------------------------------------------------------------------------
IdleCkpt ==
  /\ ckpt = EmptyDict
  /\ ckpt_calls = <<>>
  /\ weights_file = 0
  /\ restored = EmptyDict
  /\ rt_status = "none"
  /\ rt_target = "none"
  /\ rt_diverged = FALSE


IdleHist ==
  /\ hist = EmptyDict
  /\ hist_runs = 0
  /\ hist_epochs = 0
  /\ hist_n = 0
  /\ hist_pops = <<>>
  /\ hist_sizes = {}
  /\ hist_last = NoCall
  /\ hist_model = FALSE
  /\ hist_files = EmptyDict
  /\ hist_elogs = <<>>
  /\ hist_run_sum = 0


IdleLam ==
  /\ lam = EmptyDict
  /\ lam_batch = 0
  /\ lam_n = 0
  /\ lam_fired = <<>>
  /\ lam_sizes = {}
  /\ lam_epochs = 0
  /\ lam_last = NoCall
  /\ lam_sum = 0


IdleLR ==
  /\ lr_schedule = <<>>
  /\ lr_groups = <<>>
  /\ lr_last = [epoch |-> -1, err |-> "none"]

NoBegin == [sentinel |-> FALSE, cp_ok |-> TRUE, end |-> "none", files |-> EmptyDict]

IdleMeta ==
  /\ ms = EmptyDict
  /\ ms_pc = "none"
  /\ ms_files = EmptyDict
  /\ ms_runs = 0
  /\ ms_clock = 0
  /\ ms_last = NoBegin

\* -------------------------------------------------------------------------
\* ModelCheckpoint: the driver
\* -------------------------------------------------------------------------
InitCkpt ==
  /\ registered = "ModelCheckpoint"
  /\ IdleHist /\ IdleLam /\ IdleLR /\ IdleMeta
  /\ \E monitor \in Monitors, verbose \in {0, 1}, sbo \in BOOLEAN,
        mode \in Modes, period \in 1..MaxPeriod :
       ckpt = ModelCheckpointInit("model", "optimizer", monitor, verbose, sbo, mode, period)
  /\ ckpt_calls = <<>>
  /\ weights_file = 0
  /\ restored = EmptyDict
  /\ rt_status = "none"
  /\ rt_target = "none"
  /\ rt_diverged = FALSE

\* The driver calls on_epoch_end of the checkpoint and, when a restored copy
\* exists, of the copy with the same logs.
CkptEpochEnd(logs) ==
  /\ registered = "ModelCheckpoint"
  /\ Len(ckpt_calls) < MaxCkptCalls
  /\ LET r == OnEpochEnd(ckpt, logs)
         live == (rt_status = "ok")
         rr == IF live THEN OnEpochEnd(restored, logs)
               ELSE [self |-> restored, saved |-> FALSE]
         n == Len(ckpt_calls) + 1
     IN /\ ckpt' = r.self
        /\ restored' = rr.self
        /\ weights_file' = IF r.saved \/ rr.saved THEN n ELSE weights_file
        /\ ckpt_calls' = Append(ckpt_calls,
             [some |-> HasKey(logs, ckpt["monitor"]),
              cur |-> IF HasKey(logs, ckpt["monitor"]) THEN logs[ckpt["monitor"]] ELSE Fin(0),
              cadence |-> (ckpt["epochs_since_last_save"] + 1 >= ckpt["period"]),
              saved |-> r.saved])
        /\ rt_diverged' = (rt_diverged \/ (live /\ rr.saved # r.saved))
  /\ UNCHANGED <<registered, rt_status, rt_target, histVars, lamVars, lrVars, msVars>>

\* pickle round trip: __getstate__ of the checkpoint, __setstate__ into a
\* fresh object: one that pickle made with __new__ (empty __dict__), or one
\* that the caller constructed with __init__ around the live model.
CkptRoundTrip(target) ==
  /\ registered = "ModelCheckpoint"
  /\ rt_status = "none"
  /\ LET state == GetState(ckpt)
         fresh == IF target = "unpickled" THEN EmptyDict
                  ELSE ModelCheckpointInit("model", "optimizer", VAL_LOSS, 0, FALSE, "auto", 1)
     IN /\ rt_target' = target
        /\ IF SetStateRaises(fresh)
           THEN /\ rt_status' = "AttributeError"
                /\ restored' = fresh
           ELSE /\ rt_status' = "ok"
                /\ restored' = SetState(fresh, state)
  /\ UNCHANGED <<registered, ckpt, ckpt_calls, weights_file, rt_diverged, histVars, lamVars, lrVars, msVars>>

NextCkpt ==
  \/ \E logs \in CkptLogs : CkptEpochEnd(logs)
  \/ \E target \in {"unpickled", "constructed"} : CkptRoundTrip(target)

SpecCkpt == InitCkpt /\ [][NextCkpt]_vars


\* -------------------------------------------------------------------------
\* History: the driver
\* -------------------------------------------------------------------------
InitHist ==
  /\ registered = "History"
  /\ IdleCkpt /\ IdleLam /\ IdleLR /\ IdleMeta
  /\ \E k \in {-1} \cup 0..MaxK, save_path \in {"None", "out"} :
       hist = HistoryInit(k, save_path)
  /\ hist_runs = 0
  /\ hist_epochs = 0
  /\ hist_n = 0
  /\ hist_pops = <<>>
  /\ hist_sizes = {}
  /\ hist_last = NoCall
  /\ hist_model = FALSE
  /\ hist_files = EmptyDict
  /\ hist_elogs = <<>>
  /\ hist_run_sum = 0

\* An exception that a hook raises ends the run: the driver calls no hook after it.
HistTrainBegin ==
  /\ registered = "History"
  /\ hist_last.err = "none"
  /\ hist_runs < MaxHistRuns
  /\ hist' = HistOnTrainBegin(hist)
  /\ hist_runs' = hist_runs + 1
  /\ hist_last' = [NoCall EXCEPT !.op = "on_train_begin"]
  /\ hist_elogs' = <<>>
  /\ hist_run_sum' = 0
  /\ UNCHANGED <<registered, hist_epochs, hist_n, hist_pops, hist_sizes, hist_model,
                 hist_files, ckptVars, lamVars, lrVars, msVars>>

\* the driver calls the other hooks between on_train_begin and on_train_end
HistEpochEnd(logs) ==
  /\ registered = "History"
  /\ hist_runs > 0
  /\ hist_last.err = "none"
  /\ hist_epochs < MaxHistEpochs
  /\ LET r == HistOnEpochEnd(hist, logs, hist_files)
     IN /\ hist' = r.self
        /\ hist_files' = r.files
  /\ hist_epochs' = hist_epochs + 1
  /\ hist_elogs' = Append(hist_elogs, logs)
  /\ hist_last' = [NoCall EXCEPT !.op = "on_epoch_end", !.logs_in = logs, !.logs_out = logs]
  /\ UNCHANGED <<registered, hist_runs, hist_n, hist_pops, hist_sizes, hist_model,
                 hist_run_sum, ckptVars, lamVars, lrVars, msVars>>

HistBatchEnd(logs) ==
  /\ registered = "History"
  /\ hist_runs > 0
  /\ hist_last.err = "none"
  /\ hist_n < MaxHistBatches
  /\ LET r == HistOnBatchEnd(hist, logs, hist_model)
     IN /\ hist' = r.self
        /\ hist_model' = r.modelattr
        /\ hist_n' = hist_n + 1
        /\ hist_pops' = IF r.populated THEN Append(hist_pops, hist_n + 1) ELSE hist_pops
        /\ hist_sizes' = IF HasKey(logs, "size") THEN hist_sizes \cup {logs["size"]}
                         ELSE hist_sizes \cup {0}
        /\ hist_run_sum' = IF HasKey(logs, "size") THEN hist_run_sum + logs["size"]
                           ELSE hist_run_sum
        /\ hist_last' = [op |-> "on_batch_end", err |-> r.err, logs_in |-> logs,
                         logs_out |-> r.logs, populated |-> r.populated]
  /\ UNCHANGED <<registered, hist_runs, hist_epochs, hist_files, hist_elogs,
                 ckptVars, lamVars, lrVars, msVars>>

NextHist ==
  \/ HistTrainBegin
  \/ \E logs \in HistEpochLogs : HistEpochEnd(logs)
  \/ \E logs \in HistBatchLogs : HistBatchEnd(logs)

SpecHist == InitHist /\ [][NextHist]_vars


\* -------------------------------------------------------------------------
\* LambdaCallbackPickableEveryKExamples: the driver
\* -------------------------------------------------------------------------
InitLam ==
  /\ registered = "LambdaCallbackPickableEveryKExamples"
  /\ IdleCkpt /\ IdleHist /\ IdleLR /\ IdleMeta
  /\ \E k \in LamKs, caf \in BOOLEAN : lam = LambdaInit(k, caf)
  /\ lam_batch = 0
  /\ lam_n = 0
  /\ lam_fired = <<>>
  /\ lam_sizes = {}
  /\ lam_epochs = 0
  /\ lam_last = NoCall
  /\ lam_sum = 0

\* Batches start from 1; the driver passes the index after the previous one,
\* or 1 again when a new epoch starts.  An exception ends the run.
LamBatchEnd(batch, logs) ==
  /\ registered = "LambdaCallbackPickableEveryKExamples"
  /\ lam_last.err = "none"
  /\ batch \in {lam_batch + 1, 1}
  /\ batch = 1 => lam_epochs < MaxLamEpochs
  /\ HasKey(logs, "size") => lam["examples_seen"] + logs["size"] <= MaxLamExamples
  /\ LET r == LamOnBatchEnd(lam, batch, logs)
     IN /\ lam' = r.self
        /\ lam_fired' = IF r.fired
                        THEN Append(lam_fired, [call |-> lam_n + 1, batch |-> batch])
                        ELSE lam_fired
        /\ lam_last' = [op |-> "on_batch_end", err |-> r.err, logs_in |-> logs,
                        logs_out |-> logs, populated |-> r.fired]
  /\ lam_batch' = batch
  /\ lam_n' = lam_n + 1
  /\ lam_sizes' = IF HasKey(logs, "size") THEN lam_sizes \cup {logs["size"]}
                  ELSE lam_sizes \cup {0}
  /\ lam_sum' = IF HasKey(logs, "size") THEN lam_sum + logs["size"] ELSE lam_sum
  /\ lam_epochs' = IF batch = 1 THEN lam_epochs + 1 ELSE lam_epochs
  /\ UNCHANGED <<registered, ckptVars, histVars, lrVars, msVars>>

NextLam ==
  \E batch \in {1, lam_batch + 1}, logs \in LamLogs : LamBatchEnd(batch, logs)

SpecLam == InitLam /\ [][NextLam]_vars


\* -------------------------------------------------------------------------
\* LRSchedule: the driver
\* -------------------------------------------------------------------------
InitLR ==
  /\ registered = "LRSchedule"
  /\ IdleCkpt /\ IdleHist /\ IdleLam /\ IdleMeta
  /\ lr_schedule \in Schedules
  /\ \E n \in 1..MaxGroups : lr_groups = [g \in 1..n |-> 5]
  /\ lr_last = [epoch |-> -1, err |-> "none"]

\* Epochs start from 0.  An exception ends the run.
LREpochBegin(epoch) ==
  /\ registered = "LRSchedule"
  /\ lr_last.err = "none"
  /\ LET r == LROnEpochBegin(lr_schedule, lr_groups, epoch)
     IN /\ lr_groups' = r.groups
        /\ lr_last' = [epoch |-> epoch, err |-> r.err]
  /\ UNCHANGED <<registered, lr_schedule, ckptVars, histVars, lamVars, msVars>>

NextLR == \E epoch \in 0..MaxLREpoch : LREpochBegin(epoch)

SpecLR == InitLR /\ [][NextLR]_vars

\* -------------------------------------------------------------------------
\* MetaSaver: the processes that run on one save_path
\* -------------------------------------------------------------------------
InitMeta ==
  /\ registered = "MetaSaver"
  /\ IdleCkpt /\ IdleHist /\ IdleLam /\ IdleLR
  /\ \E force \in BOOLEAN, config \in {1, 2} : ms = MetaSaverInit(force, config, "out")
  /\ ms_pc = "ready"
  /\ ms_files = EmptyDict
  /\ ms_runs = 1
  /\ ms_clock = 0
  /\ ms_last = NoBegin

\* A new process starts on the same save_path: after the previous one ended,
\* or was stopped before its on_train_end.
MetaNewProcess(force, config) ==
  /\ registered = "MetaSaver"
  /\ ms_pc # "ready"
  /\ ms_runs < MaxMetaRuns
  /\ ms' = MetaSaverInit(force, config, "out")
  /\ ms_pc' = "ready"
  /\ ms_runs' = ms_runs + 1
  /\ ms_clock' = ms_clock + 1
  /\ UNCHANGED <<registered, ms_files, ms_last, ckptVars, histVars, lamVars, lrVars>>

MetaTrainBegin(cp_ok) ==
  /\ registered = "MetaSaver"
  /\ ms_pc = "ready"
  /\ LET r == MetaOnTrainBegin(ms, ms_files, "train.py", cp_ok, ms_clock + 1)
     IN /\ ms' = r.self
        /\ ms_files' = r.files
        /\ ms_pc' = CASE r.end = "exit" -> "exited"
                      [] r.end = "AssertionError" -> "failed"
                      [] OTHER -> "training"
        /\ ms_last' = [sentinel |-> HasKey(ms_files, "FINISHED"), cp_ok |-> cp_ok,
                       end |-> r.end, files |-> ms_files]
  /\ ms_clock' = ms_clock + 1
  /\ UNCHANGED <<registered, ms_runs, ckptVars, histVars, lamVars, lrVars>>

MetaTrainEnd ==
  /\ registered = "MetaSaver"
  /\ ms_pc = "training"
  /\ LET r == MetaOnTrainEnd(ms, ms_files, ms_clock + 1)
     IN /\ ms' = r.self
        /\ ms_files' = r.files
  /\ ms_pc' = "finished"
  /\ ms_clock' = ms_clock + 1
  /\ UNCHANGED <<registered, ms_runs, ms_last, ckptVars, histVars, lamVars, lrVars>>

NextMeta ==
  \/ \E force \in BOOLEAN, config \in {1, 2} : MetaNewProcess(force, config)
  \/ \E cp_ok \in BOOLEAN : MetaTrainBegin(cp_ok)
  \/ MetaTrainEnd

SpecMeta == InitMeta /\ [][NextMeta]_vars

\* -------------------------------------------------------------------------
\* The batch hooks of History and of LambdaCallbackPickableEveryKExamples
\* -------------------------------------------------------------------------
SpecBatchHooks == (InitHist \/ InitLam) /\ [][NextHist \/ NextLam]_vars

\* -------------------------------------------------------------------------
\* Every callback
\* -------------------------------------------------------------------------
Init == InitCkpt \/ InitHist \/ InitLam \/ InitLR \/ InitMeta
Next == NextCkpt \/ NextHist \/ NextLam \/ NextLR \/ NextMeta
Spec == Init /\ [][Next]_vars

\* -------------------------------------------------------------------------
\* Properties
\* -------------------------------------------------------------------------
\* order of the floats, stated apart from np.less
ExtLt(a, b) == a[1] < b[1] \/ (a[1] = b[1] /\ a[2] < b[2])
ExtLe(a, b) == a = b \/ ExtLt(a, b)
\* a is strictly better than b for the comparison operator op
Better(op, a, b) == IF op = "less" THEN ExtLt(a, b) ELSE ExtLt(b, a)

IsCkpt == registered = "ModelCheckpoint"
NCalls == Len(ckpt_calls)

\* C1: with save_best_only=False and period p >= 1, whatever verbose and the
\* logs are, call i of on_epoch_end saves the weights iff i is a multiple of p.
C1_SavesEveryPeriod ==
  (IsCkpt /\ ~ckpt["save_best_only"]) =>
    \A i \in 1..NCalls : ckpt_calls[i].saved <=> (i % ckpt["period"] = 0)

\* C5: with save_best_only=True and period=1, when every call's logs hold the
\* monitored metric, call i saves iff its value is strictly better (smaller
\* for less, greater for greater) than every earlier value, and best is the
\* extremum of the values; the values 5, 3, 4, 2 under less save on calls
\* 1, 2 and 4 and leave best = 2.
C5_SavesOnStrictImprovement ==
  (IsCkpt /\ ckpt["save_best_only"] /\ ckpt["period"] = 1
     /\ \A i \in 1..NCalls : ckpt_calls[i].some) =>
    /\ \A i \in 1..NCalls :
         ckpt_calls[i].saved <=>
           \A j \in 1..(i - 1) : Better(ckpt["monitor_op"], ckpt_calls[i].cur, ckpt_calls[j].cur)
    /\ NCalls > 0 =>
         /\ \E i \in 1..NCalls : ckpt["best"] = ckpt_calls[i].cur
         /\ \A i \in 1..NCalls : ~Better(ckpt["monitor_op"], ckpt_calls[i].cur, ckpt["best"])
    /\ (ckpt["monitor_op"] = "less"
          /\ [i \in 1..NCalls |-> ckpt_calls[i].cur] = <<Fin(5), Fin(3), Fin(4), Fin(2)>>) =>
         /\ [i \in 1..NCalls |-> ckpt_calls[i].saved] = <<TRUE, TRUE, FALSE, TRUE>>
         /\ ckpt["best"] = Fin(2)

\* C5: the values 5, 3, 4, 2 have been reported under less
C5_Witness ==
  /\ IsCkpt /\ ckpt["save_best_only"] /\ ckpt["period"] = 1
  /\ ckpt["monitor_op"] = "less"
  /\ NCalls = 4
  /\ [i \in 1..NCalls |-> ckpt_calls[i].some] = <<TRUE, TRUE, TRUE, TRUE>>
  /\ [i \in 1..NCalls |-> ckpt_calls[i].cur] = <<Fin(5), Fin(3), Fin(4), Fin(2)>>

\* C6: the state __getstate__ returns holds no model and no optimizer, and
\* restoring it with __setstate__ into a freshly unpickled object succeeds,
\* yields the same best, epochs_since_last_save, period, save_best_only and
\* comparison operator, and the restored object saves at the same later calls
\* as the original.
C6_RoundTrip ==
  (IsCkpt /\ rt_target = "unpickled") =>
    /\ ~HasKey(GetState(ckpt), "model") /\ ~HasKey(GetState(ckpt), "optimizer")
    /\ rt_status = "ok"
    /\ \A a \in {"best", "epochs_since_last_save", "period", "save_best_only", "monitor_op"} :
         restored[a] = ckpt[a]
    /\ ~rt_diverged

\* C9: a step changes best only if it is an on_epoch_end call at a cadence
\* point with save_best_only=True whose logs hold the monitored metric with a
\* value strictly better than best, and then best becomes that value; best
\* never increases under less and never decreases under greater.
C9_Step ==
  IsCkpt =>
    /\ ckpt'["best"] # ckpt["best"] =>
         /\ Len(ckpt_calls') = NCalls + 1
         /\ Len(ckpt_calls') % ckpt["period"] = 0
         /\ ckpt["save_best_only"]
         /\ ckpt_calls'[NCalls + 1].some
         /\ Better(ckpt["monitor_op"], ckpt_calls'[NCalls + 1].cur, ckpt["best"])
         /\ ckpt'["best"] = ckpt_calls'[NCalls + 1].cur
    /\ ckpt["monitor_op"] = "less" => ExtLe(ckpt'["best"], ckpt["best"])
    /\ ckpt["monitor_op"] = "greater" => ExtLe(ckpt["best"], ckpt'["best"])

\* C9: every step of the checkpoint changes best only by a strict improvement
\* at a cadence point (C9_Step).
C9_BestChangesOnlyWhenStrictlyBetter == [][C9_Step]_vars

\* C9: a cadence call whose value equals best has left best as it was, after an
\* earlier call improved it
C9_Witness ==
  /\ IsCkpt /\ ckpt["save_best_only"] /\ ckpt["period"] = 2
  /\ NCalls = 4
  /\ ckpt_calls[2].saved
  /\ ckpt_calls[4].some /\ ~ckpt_calls[4].saved
  /\ ckpt_calls[4].cur = ckpt["best"]
  /\ ckpt_calls[3].some /\ Better(ckpt["monitor_op"], ckpt_calls[3].cur, ckpt["best"])

IsLR == registered = "LRSchedule"
IsSorted(schedule) ==
  \A i \in 1..(Len(schedule) - 1) : schedule[i][1] <= schedule[i + 1][1]
\* the rate of the first entry whose threshold is greater than e, or of the
\* last entry
RateFor(schedule, e) ==
  LET above == {i \in 1..Len(schedule) : schedule[i][1] > e}
  IN IF above = {} THEN schedule[Len(schedule)][2]
     ELSE schedule[CHOOSE i \in above : \A j \in above : i <= j][2]

\* C8: after on_epoch_begin(e), e >= 0, with a non-empty schedule sorted by
\* threshold, every param group's lr is the rate of the first entry whose
\* threshold is strictly greater than e, or of the last entry if there is
\* none; the schedule (10, 0.1), (20, 0.01) gives 0.1 at 5 and 0.01 at 15, 25.
C8_LRSchedule ==
  (IsLR /\ lr_last.epoch >= 0 /\ Len(lr_schedule) > 0 /\ IsSorted(lr_schedule)) =>
    /\ lr_last.err = "none"
    /\ \A g \in DOMAIN lr_groups : lr_groups[g] = RateFor(lr_schedule, lr_last.epoch)
    /\ lr_schedule = <<(<<10, 10>>), (<<20, 1>>)>> =>
         \A g \in DOMAIN lr_groups :
           /\ lr_last.epoch = 5 => lr_groups[g] = 10
           /\ lr_last.epoch = 15 => lr_groups[g] = 1
           /\ lr_last.epoch = 25 => lr_groups[g] = 1

\* C8: an epoch equal to a threshold has selected the next entry
C8_Witness ==
  /\ IsLR
  /\ lr_schedule = <<(<<10, 10>>), (<<20, 1>>)>>
  /\ lr_last.epoch = 10
  /\ Len(lr_groups) = 2
  /\ \A g \in DOMAIN lr_groups : lr_groups[g] = 1

IsMeta == registered = "MetaSaver"
\* the state right after an on_train_begin call of the running process
AfterBegin == ms_pc \in {"exited", "failed", "training"}

\* C7: on_train_begin with the FINISHED sentinel in save_path and
\* force_train=False exits and leaves every file as it was; with
\* force_train=True or no sentinel it goes on (when the cp of the script
\* succeeds) and writes config.json and meta.json.
C7_SentinelStopsBeforeWrites ==
  (IsMeta /\ AfterBegin) =>
    /\ (ms_last.sentinel /\ ~ms["force_train"]) =>
         /\ ms_pc = "exited"
         /\ ms_last.end = "exit"
         /\ ms_files = ms_last.files
    /\ (~ms_last.sentinel \/ ms["force_train"]) =>
         /\ ms_pc # "exited"
         /\ ms_last.cp_ok =>
              /\ ms_pc = "training"
              /\ HasKey(ms_files, "config.json") /\ ms_files["config.json"] = ms["config"]
              /\ HasKey(ms_files, "meta.json") /\ ms_files["meta.json"] = ms["meta"]
              /\ ms["meta"].execution_time = 0 - ms_clock

\* C7: a process found the sentinel of an earlier run and exited
C7_Witness ==
  /\ IsMeta /\ ms_pc = "exited"
  /\ HasKey(ms_files, "FINISHED") /\ HasKey(ms_files, "config.json")
  /\ ms_files["config.json"] # ms["config"]

IsHist == registered = "History"
IsLam == registered = "LambdaCallbackPickableEveryKExamples"
Ceil(a, b) == (a + b - 1) \div b
\* pops is m, 2m, 3m, ...: every multiple of m up to n
EveryMth(pops, m, n) ==
  /\ Len(pops) = n \div m
  /\ \A i \in 1..Len(pops) : pops[i] = i * m
\* every on_batch_end call so far carried the size b
ConstantSize(sizes, b) == sizes = {b} /\ b >= 1

\* C2: with k=100 and call_after_first_batch=True, driven by batches 1, 2,
\* 3, ... of size 10, on_k_examples is invoked on batch 1 and next on batch
\* 11, and examples_seen_since_last_call is 0 after each invocation.
C2_SecondCallAtBatch11 ==
  (IsLam /\ lam["k"] = 100 /\ lam["call_after_first_batch"]
     /\ lam_sizes = {10} /\ lam_epochs = 1) =>
    /\ lam_fired[1].batch = 1
    /\ lam_n < 11 => Len(lam_fired) = 1
    /\ lam_n >= 11 => (Len(lam_fired) >= 2 /\ lam_fired[2].batch = 11)
    /\ lam_last.populated => lam["examples_seen_since_last_call"] = 0

\* C2 as amended: the second invocation is on batch 12, the first batch at
\* which the examples seen since batch 1 (110) exceed k = 100.
C2_SecondCallAtBatch12 ==
  (IsLam /\ lam["k"] = 100 /\ lam["call_after_first_batch"]
     /\ lam_sizes = {10} /\ lam_epochs = 1) =>
    /\ lam_fired[1].batch = 1
    /\ lam_n < 12 => Len(lam_fired) = 1
    /\ lam_n >= 12 => (Len(lam_fired) >= 2 /\ lam_fired[2].batch = 12)
    /\ lam_last.populated => lam["examples_seen_since_last_call"] = 0
    /\ ~lam_last.populated =>
         lam["examples_seen_since_last_call"] = 10 * (lam_n - lam_fired[Len(lam_fired)].call)

\* C2: twelve batches of size 10 have been seen and the second invocation made
C2_Witness ==
  /\ IsLam /\ lam["k"] = 100 /\ lam["call_after_first_batch"]
  /\ lam_sizes = {10} /\ lam_epochs = 1
  /\ lam_n = 12
  /\ Len(lam_fired) = 2
  /\ lam_last.populated

\* C3: with save_every_k_examples = K >= 1 and every on_batch_end call of the
\* same size B >= 1, history_batch is populated at the calls ceil(K/B),
\* 2 ceil(K/B), ... and at no other call, also when B divides K.
C3_PopulatedEveryCeil ==
  \A b \in BatchSizes :
    (IsHist /\ hist["save_every_k_examples"] >= 1 /\ ConstantSize(hist_sizes, b)) =>
      EveryMth(hist_pops, Ceil(hist["save_every_k_examples"], b), hist_n)

\* C3 as amended: history_batch is populated at the calls m, 2m, ... with
\* m = floor(K/B) + 1, counted from the construction of the History; m is
\* ceil(K/B) only when B does not divide K.
C3_PopulatedEveryFloorPlusOne ==
  \A b \in BatchSizes :
    (IsHist /\ hist["save_every_k_examples"] >= 1 /\ ConstantSize(hist_sizes, b)) =>
      /\ EveryMth(hist_pops, (hist["save_every_k_examples"] \div b) + 1, hist_n)
      /\ hist["save_every_k_examples"] % b # 0 =>
           EveryMth(hist_pops, Ceil(hist["save_every_k_examples"], b), hist_n)

\* C3: B divides K: two populations, at the calls 2 and 4
C3_Witness ==
  /\ IsHist /\ hist["save_every_k_examples"] = 2
  /\ ConstantSize(hist_sizes, 2)
  /\ hist_pops = <<2, 4>>

\* C4: after on_train_begin, whatever calls came before it, history and
\* history_batch are empty and examples_seen is 0.
C4_TrainBeginResets ==
  (IsHist /\ hist_last.op = "on_train_begin") =>
    /\ DOMAIN hist["history"] = {}
    /\ DOMAIN hist["history_batch"] = {}
    /\ hist["examples_seen"] = 0

\* C10: an on_batch_end call of LambdaCallbackPickableEveryKExamples, or of
\* History with save_every_k_examples # -1, whose logs hold no 'size' raises
\* AssertionError and leaves the object (examples_seen, the since-last
\* counter, calls, history_batch) and the logs as they were, without invoking
\* on_k_examples or populating; with 'size' it raises nothing.
C10_Step ==
  /\ (IsLam /\ lam_n' = lam_n + 1) =>
       IF HasKey(lam_last'.logs_in, "size")
       THEN lam_last'.err = "none"
       ELSE /\ lam_last'.err = "AssertionError"
            /\ lam' = lam
            /\ lam_fired' = lam_fired
            /\ ~lam_last'.populated
            /\ lam_last'.logs_out = lam_last'.logs_in
  /\ (IsHist /\ hist_n' = hist_n + 1 /\ hist["save_every_k_examples"] # -1) =>
       IF HasKey(hist_last'.logs_in, "size")
       THEN hist_last'.err = "none"
       ELSE /\ hist_last'.err = "AssertionError"
            /\ hist' = hist
            /\ hist_pops' = hist_pops
            /\ ~hist_last'.populated
            /\ hist_last'.logs_out = hist_last'.logs_in

\* C10: every on_batch_end step without 'size' raises and changes nothing
\* (C10_Step).
C10_MissingSizeIsAHardFailure == [][C10_Step]_vars

\* C10: History raised on a batch without 'size' after it had counted examples
C10_Witness ==
  /\ IsHist /\ hist_last.op = "on_batch_end" /\ hist_last.err = "AssertionError"
  /\ ~HasKey(hist_last.logs_in, "size")
  /\ hist["examples_seen"] > 0
  /\ hist["examples_seen_since_last_population"] > 0

\* C11: with save_best_only=True, an on_epoch_end call at a cadence point
\* whose logs lack the monitored metric saves nothing and leaves best and the
\* weights file as they were (only the cadence counter is reset); a cadence
\* call whose logs hold the metric with a value strictly better than best
\* saves and takes the value as best, whatever calls came before it.
C11_Step ==
  (IsCkpt /\ ckpt["save_best_only"] /\ Len(ckpt_calls') = NCalls + 1
     /\ ckpt["epochs_since_last_save"] + 1 >= ckpt["period"]) =>
    LET c == ckpt_calls'[NCalls + 1] IN
    /\ ~c.some =>
         /\ ~c.saved
         /\ weights_file' = weights_file
         /\ ckpt' = [ckpt EXCEPT !["epochs_since_last_save"] = 0]
    /\ (c.some /\ Better(ckpt["monitor_op"], c.cur, ckpt["best"])) =>
         /\ c.saved
         /\ weights_file' = NCalls + 1
         /\ ckpt'["best"] = c.cur

\* C11: every cadence call without the metric is skipped without effect, and
\* every cadence call with an improved metric saves (C11_Step).
C11_MissingMetricIsSkipped == [][C11_Step]_vars

\* C11: a cadence call without the metric was skipped, a later call with the
\* metric saved, and a call after that without the metric was skipped again
C11_Witness ==
  /\ IsCkpt /\ ckpt["save_best_only"] /\ ckpt["period"] = 1
  /\ NCalls = 3
  /\ ~ckpt_calls[1].some /\ ~ckpt_calls[1].saved
  /\ ckpt_calls[2].some /\ ckpt_calls[2].saved
  /\ ~ckpt_calls[3].some /\ ~ckpt_calls[3].saved
  /\ ckpt["best"] = ckpt_calls[2].cur
  /\ weights_file = 2


\* the values the key k had in the calls whose logs held it, in call order
RECURSIVE ValuesOf(_, _)
ValuesOf(calls, k) ==
  IF calls = <<>> THEN <<>>
  ELSE LET n == Len(calls)
           front == ValuesOf(SubSeq(calls, 1, n - 1), k)
       IN IF k \in DOMAIN calls[n] THEN Append(front, calls[n][k]) ELSE front
\* the keys the calls' logs held
KeysOf(calls) == UNION {DOMAIN calls[i] : i \in 1..Len(calls)}

\* C12: after on_train_begin and N on_epoch_end calls, history holds exactly
\* the keys the calls' logs held, and for every key the values it had in the
\* calls that held it, in call order: {"loss": [v_1, ..., v_N]} when every
\* call's logs are {"loss": v_i}.
C12_HistoryInCallOrder ==
  (IsHist /\ hist_runs > 0) =>
    /\ DOMAIN hist["history"] = KeysOf(hist_elogs)
    /\ \A k \in KeysOf(hist_elogs) : hist["history"][k] = ValuesOf(hist_elogs, k)
    /\ (\A i \in 1..Len(hist_elogs) : DOMAIN hist_elogs[i] = {"loss"}) =>
         hist["history"] = [k \in (IF hist_elogs = <<>> THEN {} ELSE {"loss"}) |->
                              [i \in 1..Len(hist_elogs) |-> hist_elogs[i]["loss"]]]

\* C12: two calls with different values, the greater one first
C12_Witness ==
  /\ IsHist /\ hist_runs > 0
  /\ Len(hist_elogs) = 2
  /\ hist_elogs[1] = [k \in {"loss"} |-> 2]
  /\ hist_elogs[2] = [k \in {"loss"} |-> 1]
  /\ hist["history"]["loss"] = <<2, 1>>


\* C13: between on_train_begin and on_train_end, with non-negative sizes,
\* History.examples_seen (batch saving enabled) and
\* LambdaCallbackPickableEveryKExamples.examples_seen never decrease and equal
\* the sum of the sizes the on_batch_end calls of the run carried so far.
C13_CountersEqualRunSum ==
  /\ (IsHist /\ hist_runs > 0 /\ hist["save_every_k_examples"] # -1) =>
       /\ hist["examples_seen"] >= 0
       /\ hist["examples_seen"] = hist_run_sum
  /\ IsLam =>
       /\ lam["examples_seen"] >= 0
       /\ lam["examples_seen"] = lam_sum


\* C14: an on_batch_end(batch, logs) call whose logs hold 'size' invokes
\* on_k_examples once iff, after the size is added, the examples seen since
\* the last call exceed k strictly, or call_after_first_batch is set and batch
\* is 1; when it fires the since-last counter becomes 0 and calls grows by 1,
\* otherwise calls is unchanged and the since-last counter keeps the added
\* size; calls is the number of on_k_examples invocations.
C14_Step ==
  (IsLam /\ lam_n' = lam_n + 1 /\ HasKey(lam_last'.logs_in, "size")) =>
    LET since == lam["examples_seen_since_last_call"] + lam_last'.logs_in["size"]
        due == since > lam["k"] \/ (lam["call_after_first_batch"] /\ lam_batch' = 1)
    IN /\ Len(lam_fired') = Len(lam_fired) + (IF due THEN 1 ELSE 0)
       /\ due => /\ lam'["examples_seen_since_last_call"] = 0
                 /\ lam'["calls"] = lam["calls"] + 1
                 /\ lam_fired'[Len(lam_fired')] = [call |-> lam_n', batch |-> lam_batch']
       /\ ~due => /\ lam'["examples_seen_since_last_call"] = since
                  /\ lam'["calls"] = lam["calls"]
       /\ lam'["calls"] = Len(lam_fired')

\* C14: every on_batch_end step fires exactly when due and counts it (C14_Step).
C14_FiresExactlyWhenDue == [][C14_Step]_vars

\* C14: the counter stood exactly at k = 20 without firing, the next batch
\* fired, and so did batch 1 of a later epoch with call_after_first_batch
C14_Witness ==
  /\ IsLam /\ lam["k"] = 20 /\ lam["call_after_first_batch"]
  /\ lam_sizes = {10}
  /\ lam_fired = <<[call |-> 1, batch |-> 1], [call |-> 4, batch |-> 4],
                   [call |-> 5, batch |-> 1]>>
  /\ lam["calls"] = 3
  /\ lam_n = 5


\* C15: every on_epoch_end call adds 1 to epochs_since_last_save and, when the
\* counter reaches period (>= 1), resets it to 0 before the save decision,
\* also when the metric is missing or not improved: after n calls the counter
\* is n mod period, so 0 <= epochs_since_last_save < period, the evaluate/save
\* branch is entered exactly on the calls period, 2 period, ..., and only
\* those calls save.
C15_Cadence ==
  IsCkpt =>
    /\ ckpt["epochs_since_last_save"] = NCalls % ckpt["period"]
    /\ 0 <= ckpt["epochs_since_last_save"]
    /\ ckpt["epochs_since_last_save"] < ckpt["period"]
    /\ \A i \in 1..NCalls :
         /\ ckpt_calls[i].cadence <=> (i % ckpt["period"] = 0)
         /\ ckpt_calls[i].saved => (i % ckpt["period"] = 0)

\* C15: with period 2, call 2 saved and call 4 was a cadence point without the
\* metric: nothing was saved at it and the counter is 0 again
C15_Witness ==
  /\ IsCkpt /\ ckpt["period"] = 2 /\ ckpt["save_best_only"]
  /\ NCalls = 4
  /\ ckpt_calls[2].saved
  /\ ckpt_calls[3].some
  /\ ~ckpt_calls[4].some /\ ~ckpt_calls[4].saved
  /\ ckpt["epochs_since_last_save"] = 0
  /\ weights_file = 2

\* C16: with batch saving enabled, an on_batch_end call whose logs hold 'size'
\* leaves the logs as they were except for logs['examples_seen'], which holds
\* the running total with the batch's size added; a call that populates
\* history_batch appends every entry of these logs, 'examples_seen' with the
\* running total included, and a call that does not populate leaves
\* history_batch as it was; all sequences of history_batch have one length
\* (the logs of all calls have the same keys).
C16_Step ==
  (IsHist /\ hist_n' = hist_n + 1 /\ hist["save_every_k_examples"] # -1
     /\ HasKey(hist_last'.logs_in, "size")) =>
    LET lin == hist_last'.logs_in
        lout == hist_last'.logs_out
        hb == hist["history_batch"]
        hbn == hist'["history_batch"]
    IN /\ hist'["examples_seen"] = hist["examples_seen"] + lin["size"]
       /\ hist_runs = 1 => hist'["examples_seen"] = hist_run_sum'
       /\ DOMAIN lout = DOMAIN lin \cup {"examples_seen"}
       /\ lout["examples_seen"] = hist'["examples_seen"]
       /\ \A k \in DOMAIN lin : lout[k] = lin[k]
       /\ hist_last'.populated =>
            /\ DOMAIN hbn = DOMAIN hb \cup DOMAIN lout
            /\ \A k \in DOMAIN lout :
                 hbn[k] = Append(IF k \in DOMAIN hb THEN hb[k] ELSE <<>>, lout[k])
            /\ hbn["examples_seen"][Len(hbn["examples_seen"])] = hist'["examples_seen"]
       /\ ~hist_last'.populated => hbn = hb
       /\ \A k1, k2 \in DOMAIN hbn : Len(hbn[k1]) = Len(hbn[k2])

\* C16: every on_batch_end step with batch saving enabled writes the running
\* total into the logs and into the entry it appends (C16_Step).
C16_RunningTotalInLogs == [][C16_Step]_vars

\* C16: with threshold 1, the calls 2 and 4 of size 1 populated history_batch
\* with the running totals 2 and 4
C16_Witness ==
  /\ IsHist /\ hist["save_every_k_examples"] = 1
  /\ hist_runs = 1 /\ hist_n = 4
  /\ hist_last.populated
  /\ hist_last.logs_out["examples_seen"] = 4
  /\ hist["history_batch"]["examples_seen"] = <<2, 4>>
  /\ hist["history_batch"]["size"] = <<1, 1>>


\* C17: with save_every_k_examples = -1, an on_batch_end call of History, with
\* or without 'size' in its logs, raises nothing and leaves the object
\* (examples_seen, examples_seen_since_last_population, history_batch,
\* history), the logs and the model's history_batch attribute as they were.
C17_Step ==
  (IsHist /\ hist_n' = hist_n + 1 /\ hist["save_every_k_examples"] = -1) =>
    /\ hist_last'.err = "none"
    /\ hist' = hist
    /\ hist_last'.logs_out = hist_last'.logs_in
    /\ ~hist_last'.populated
    /\ hist_pops' = hist_pops
    /\ hist_model' = hist_model
    /\ hist_files' = hist_files

\* C17: every on_batch_end step with batch saving disabled changes nothing
\* (C17_Step).
C17_DisabledBatchEndIsNoOp == [][C17_Step]_vars

\* C17: with batch saving disabled, after an epoch filled history, calls with
\* and without 'size' were made, the last one without, and nothing was counted
C17_Witness ==
  /\ IsHist /\ hist["save_every_k_examples"] = -1
  /\ hist_last.op = "on_batch_end" /\ hist_last.err = "none"
  /\ ~HasKey(hist_last.logs_in, "size")
  /\ hist_sizes = {0, 2}
  /\ hist_n = 3
  /\ hist["examples_seen"] = 0
  /\ hist["examples_seen_since_last_population"] = 0
  /\ hist["history"] = [k \in {"loss"} |-> <<1>>]
  /\ hist["history_batch"] = EmptyDict
  /\ ~hist_model


\* C18: the FINISHED sentinel appears in save_path only in an on_train_end
\* step, together with the re-persisted meta.json (execution_time with the
\* end time added), and is never removed; on_train_end always leaves it;
\* on_train_begin with the sentinel and force_train=False exits and leaves
\* every file (config.json, meta.json) as it was; on_train_begin without the
\* sentinel does not exit and goes on to training when the cp succeeds; a
\* process that stops before on_train_end leaves the files as they were.
C18_Step ==
  IsMeta =>
    /\ HasKey(ms_files, "FINISHED") => HasKey(ms_files', "FINISHED")
    /\ (~HasKey(ms_files, "FINISHED") /\ HasKey(ms_files', "FINISHED")) =>
         (ms_pc = "training" /\ ms_pc' = "finished")
    /\ (ms_pc = "training" /\ ms_pc' = "finished") =>
         /\ HasKey(ms_files', "FINISHED")
         /\ ms_files'["meta.json"] = ms'["meta"]
         /\ ms'["meta"] = [ms["meta"] EXCEPT !.execution_time = @ + ms_clock']
         /\ ms_files'["config.json"] = ms_files["config.json"]
    /\ (ms_pc = "ready" /\ ms_pc' # "ready") =>
         IF HasKey(ms_files, "FINISHED") /\ ~ms["force_train"]
         THEN ms_pc' = "exited" /\ ms_files' = ms_files
         ELSE /\ ms_pc' # "exited"
              /\ ms_last'.cp_ok => ms_pc' = "training"
    /\ ms_runs' # ms_runs => ms_files' = ms_files

\* C18: every step of the processes on one save_path keeps the lifecycle of
\* the sentinel (C18_Step).
C18_SentinelLifecycle == [][C18_Step]_vars

\* C18: the first process wrote meta.json in on_train_begin and stopped before
\* on_train_end: it left no sentinel, and the on_train_begin of the second
\* process, without force_train, proceeded and rewrote meta.json
C18_Witness ==
  /\ IsMeta /\ ms_runs = 2
  /\ ms_pc = "training" /\ ~ms["force_train"]
  /\ HasKey(ms_last.files, "meta.json") /\ ~HasKey(ms_last.files, "FINISHED")
  /\ ms_last.files["meta.json"].execution_time < 0
  /\ ms_files["meta.json"] = ms["meta"]
  /\ ms_files["meta.json"] # ms_last.files["meta.json"]

\* C19: with a threshold >= 0 and non-negative sizes, between on_batch_end
\* calls 0 <= History.examples_seen_since_last_population <=
\* save_every_k_examples and 0 <= examples_seen_since_last_call <= k of
\* LambdaCallbackPickableEveryKExamples, and neither since-last counter is
\* greater than the examples_seen beside it.
C19_SinceLastBounded ==
  /\ (IsHist /\ hist["save_every_k_examples"] >= 0) =>
       /\ 0 <= hist["examples_seen_since_last_population"]
       /\ hist["examples_seen_since_last_population"] <= hist["save_every_k_examples"]
       /\ hist["examples_seen_since_last_population"] <= hist["examples_seen"]
  /\ (IsLam /\ lam["k"] >= 0) =>
       /\ 0 <= lam["examples_seen_since_last_call"]
       /\ lam["examples_seen_since_last_call"] <= lam["k"]
       /\ lam["examples_seen_since_last_call"] <= lam["examples_seen"]

\* C19: after a population, the since-last counter of History stands exactly
\* at its threshold, below examples_seen
C19_Witness ==
  /\ IsHist /\ hist["save_every_k_examples"] = 2
  /\ hist_pops = <<2>> /\ hist_n = 3
  /\ hist_last.op = "on_batch_end" /\ hist_last.err = "none"
  /\ hist["examples_seen_since_last_population"] = 2
  /\ hist["examples_seen"] = 5


\* the calls at cadence points whose logs held the monitored metric
CadenceValues ==
  {i \in 1..NCalls : i % ckpt["period"] = 0 /\ ckpt_calls[i].some}

\* C20: with save_best_only=True and period > 1, after any sequence of
\* on_epoch_end calls best is the extremum (min under less, max under
\* greater) of the initial best and the metric values of the calls period,
\* 2 period, ... that held the metric; the values of the other calls are
\* ignored, also when they are better, and the weights file is that of the
\* last cadence call that improved best.
C20_BestOfCadencePoints ==
  (IsCkpt /\ ckpt["save_best_only"] /\ ckpt["period"] > 1) =>
    /\ IF CadenceValues = {}
       THEN /\ ckpt["best"] = (IF ckpt["monitor_op"] = "less" THEN PosInf ELSE NegInf)
            /\ weights_file = 0
       ELSE /\ \E i \in CadenceValues : ckpt["best"] = ckpt_calls[i].cur
            /\ \A i \in CadenceValues :
                 ~Better(ckpt["monitor_op"], ckpt_calls[i].cur, ckpt["best"])
            /\ weights_file \in CadenceValues
            /\ ckpt_calls[weights_file].cur = ckpt["best"]
    /\ \A i \in 1..NCalls : ckpt_calls[i].saved => i \in CadenceValues

\* C20: period 2 and the values 2, 5, 3, 4 under less: best is 4, the minimum
\* of the calls 2 and 4, and the weights are those of call 4, while the best
\* epoch overall was call 1
C20_Witness ==
  /\ IsCkpt /\ ckpt["save_best_only"] /\ ckpt["period"] = 2
  /\ ckpt["monitor_op"] = "less"
  /\ NCalls = 4
  /\ \A i \in 1..4 : ckpt_calls[i].some
  /\ [i \in 1..NCalls |-> ckpt_calls[i].cur] = <<Fin(2), Fin(5), Fin(3), Fin(4)>>
  /\ ckpt["best"] = Fin(4)
  /\ weights_file = 4


====
